---- MODULE Spec2Model ----
(***************************************************************************)
(* A model of converter.js: the line-by-line parser parseMermaid that      *)
(* builds the graph model (branches, commits, edges) of a Mermaid gitGraph,*)
(* the emitter generateDrawioXml and the command's execution block.        *)
(* Strings are TLA+ strings; the regular expressions of the dispatch are   *)
(* computed character by character.  `branches` is a plain JavaScript      *)
(* object, so a lookup branches[name] also finds what Object.prototype     *)
(* provides; the model keeps that part of the lookup.                      *)
(***************************************************************************)
EXTENDS Integers, Sequences, FiniteSets, TLC

VARIABLES
    branches,        \* own properties of the `branches` object: name -> record
    commits,         \* the `commits` array
    edges,           \* the `edges` array
    currentBranch,   \* let currentBranch
    branchCounter,   \* let branchCounter
    timeStep,        \* let timeStep
    index,           \* number of retained lines the forEach has processed
    line,            \* the retained line the callback processed last
    protoTip,        \* Object.prototype.lastCommitId
    fnTips,          \* own lastCommitId of the functions Object.prototype holds
    pc,              \* the statement of the execution block (lines 196-207) to run
    inputContent,    \* const inputContent: the text read, as its raw lines
    xmlOutput,       \* const xmlOutput: the emitted document
    outputFile,      \* what the file options.output holds
    console,         \* the messages printed, in order
    exitCode,        \* the exit status of the process, once it has ended
    clock,           \* the wall clock (new Date()) of this execution
    firstRun         \* the graph model an earlier execution made of the same text

parserVars == <<branches, commits, edges, currentBranch, branchCounter, timeStep,
                index, line, protoTip, fnTips>>

commandVars == <<pc, inputContent, xmlOutput, outputFile, console, exitCode,
                 clock, firstRun>>

vars == <<parserVars, commandVars>>

(***************************************************************************)
(* Bounds of the model.                                                    *)
(***************************************************************************)
MaxLines == 5

(***************************************************************************)
(* Configuration (converter.js 15-19).                                     *)
(***************************************************************************)
SPACING_X == 150
SPACING_Y == 100
COLORS == <<"#1E90FF", "#FF6347", "#32CD32", "#FFD700", "#DA70D6">>

(***************************************************************************)
(* JavaScript values that are not always of one type.                      *)
(***************************************************************************)
Null == <<"null">>
Undefined == <<"undefined">>
NaN == <<"NaN">>
Str(s) == <<"string", s>>
Num(n) == <<"number", n>>

\* JavaScript truthiness of null, undefined or a non-empty string.
Truthy(v) == v[1] = "string"

(***************************************************************************)
(* Characters and the preprocessing of line 37.                            *)
(***************************************************************************)
\* s.substring(a - 1, b): the characters at positions a..b (1-based), or "".
Sub(s, a, b) == IF a >= 1 /\ a <= b /\ b <= Len(s) THEN SubSeq(s, a, b) ELSE ""

Ch(s, i) == Sub(s, i, i)

WhiteSpace == {" ", "\t", "\r"}

WordChars ==
    {"a","b","c","d","e","f","g","h","i","j","k","l","m","n","o","p","q","r",
     "s","t","u","v","w","x","y","z",
     "A","B","C","D","E","F","G","H","I","J","K","L","M","N","O","P","Q","R",
     "S","T","U","V","W","X","Y","Z",
     "0","1","2","3","4","5","6","7","8","9","_"}

StartsWith(s, p) == Len(s) >= Len(p) /\ Sub(s, 1, Len(p)) = p

\* The first position at or after i whose character is not in set.
RECURSIVE SpanIn(_, _, _)
SpanIn(s, i, set) ==
    IF i <= Len(s) /\ Ch(s, i) \in set THEN SpanIn(s, i + 1, set) ELSE i

\* The first position at or after i that holds a double quote (or Len(s)+1).
RECURSIVE SpanNotQuote(_, _)
SpanNotQuote(s, i) ==
    IF i <= Len(s) /\ Ch(s, i) # "\"" THEN SpanNotQuote(s, i + 1) ELSE i

\* The last position at or before i whose character is not white space.
RECURSIVE LastNonSpace(_, _)
LastNonSpace(s, i) ==
    IF i >= 1 /\ Ch(s, i) \in WhiteSpace THEN LastNonSpace(s, i - 1) ELSE i

Trim(s) ==
    LET a == SpanIn(s, 1, WhiteSpace)
        b == LastNonSpace(s, Len(s))
    IN  Sub(s, a, b)

Retained(l) == l # "" /\ ~StartsWith(l, "%%") /\ ~StartsWith(l, "gitGraph")

(***************************************************************************)
(* The regular expressions of lines 49-52.  Each is anchored at the start  *)
(* of the line only.                                                       *)
(***************************************************************************)

\* (\s+key\s*"([^"]+)")? tried at position i; key is `id:` or `tag:`.
MatchAttr(s, i, key) ==
    LET j == SpanIn(s, i, WhiteSpace)
        k == SpanIn(s, j + Len(key), WhiteSpace)
        m == SpanNotQuote(s, k + 1)
        ok == /\ j > i
              /\ Sub(s, j, j + Len(key) - 1) = key
              /\ Ch(s, k) = "\""
              /\ m > k + 1
              /\ Ch(s, m) = "\""
    IN  IF ok THEN [ok |-> TRUE, val |-> Str(Sub(s, k + 1, m - 1)), next |-> m + 1]
              ELSE [ok |-> FALSE, val |-> Undefined, next |-> i]

\* /^commit(\s+id:\s*"([^"]+)")?(\s+tag:\s*"([^"]+)")?/
CommitMatch(l) ==
    LET g1 == MatchAttr(l, 7, "id:")
        g3 == MatchAttr(l, g1.next, "tag:")
    IN  [ok |-> StartsWith(l, "commit"), id |-> g1.val, tag |-> g3.val]

\* /^keyword\s+([\w-]+)/
NameMatch(l, keyword) ==
    LET i == Len(keyword) + 1
        j == SpanIn(l, i, WhiteSpace)
        k == SpanIn(l, j, WordChars \cup {"-"})
        ok == StartsWith(l, keyword) /\ j > i /\ k > j
    IN  [ok |-> ok, name |-> IF ok THEN Sub(l, j, k - 1) ELSE ""]

BranchMatch(l) == NameMatch(l, "branch")
CheckoutMatch(l) == NameMatch(l, "checkout")
MergeMatch(l) == NameMatch(l, "merge")

\* The branch of the if / else-if chain of lines 54-98 that a line takes.
Directive(l) ==
    IF CommitMatch(l).ok THEN "commit"
    ELSE IF BranchMatch(l).ok THEN "branch"
    ELSE IF CheckoutMatch(l).ok THEN "checkout"
    ELSE IF MergeMatch(l).ok THEN "merge"
    ELSE "none"

(***************************************************************************)
(* Property lookup on `branches` (line 39: an object literal, whose        *)
(* prototype is Object.prototype).                                         *)
(***************************************************************************)
ObjectPrototypeMethods ==
    {"constructor", "hasOwnProperty", "isPrototypeOf", "propertyIsEnumerable",
     "toLocaleString", "toString", "valueOf", "__defineGetter__",
     "__defineSetter__", "__lookupGetter__", "__lookupSetter__"}

\* What branches[name] evaluates to.
Lookup(name) ==
    IF name \in DOMAIN branches THEN "record"
    ELSE IF name = "__proto__" THEN "prototype"
    ELSE IF name \in ObjectPrototypeMethods THEN "function"
    ELSE IF name = "lastCommitId" /\ Truthy(protoTip) THEN "string"
    ELSE "undefined"

\* The truthiness of branches[name].
Known(name) == Lookup(name) # "undefined"

\* branches[name].lastCommitId
TipOf(name) ==
    CASE Lookup(name) = "record" -> branches[name].lastCommitId
      [] Lookup(name) = "prototype" -> protoTip
      [] Lookup(name) = "function" ->
            IF fnTips[name] # Undefined THEN fnTips[name] ELSE protoTip
      [] Lookup(name) = "string" -> protoTip
      [] OTHER -> Undefined

\* Every node on the top lane.
YOf_Zero(name) == Num(0)

\* branches[name].yIndex * SPACING_Y
YOf(name) ==
    IF Lookup(name) = "record" THEN Num(branches[name].yIndex * SPACING_Y) ELSE NaN

\* branches[name].color
ColorOf(name) ==
    IF Lookup(name) = "record" THEN Str(branches[name].color) ELSE Undefined

\* COLORS[i], zero-based as in the source.
ColorAt(i) == COLORS[i + 1]

\* branches[name].lastCommitId = id
SetTip(name, id) ==
    CASE Lookup(name) = "record" ->
            /\ branches' = [branches EXCEPT ![name].lastCommitId = Str(id)]
            /\ UNCHANGED <<protoTip, fnTips>>
      [] Lookup(name) = "prototype" ->
            /\ protoTip' = Str(id)
            /\ UNCHANGED <<branches, fnTips>>
      [] Lookup(name) = "function" ->
            /\ fnTips' = [fnTips EXCEPT ![name] = Str(id)]
            /\ UNCHANGED <<branches, protoTip>>
      [] OTHER ->  \* a string primitive: the assignment is dropped (sloppy mode)
            UNCHANGED <<branches, protoTip, fnTips>>

(***************************************************************************)
(* parseMermaid: the initial state and the forEach callback.               *)
(***************************************************************************)
\* The branches object parseMermaid starts from (line 39).
InitialBranches ==
    [n \in {"main"} |->
       [name |-> "main", yIndex |-> 0, lastCommitId |-> Null, color |-> ColorAt(0)]]

ParserInit ==
    /\ branches = InitialBranches
    /\ commits = <<>>
    /\ edges = <<>>
    /\ currentBranch = "main"
    /\ branchCounter = 1
    /\ timeStep = 0
    /\ index = 0
    /\ line = ""
    /\ protoTip = Undefined
    /\ fnTips = [f \in ObjectPrototypeMethods |-> Undefined]

\* parseMermaid alone, fed one line at a time: no file, no document.
Init ==
    /\ ParserInit
    /\ pc = "parse"
    /\ inputContent = Undefined
    /\ xmlOutput = Undefined
    /\ outputFile = Undefined
    /\ console = <<>>
    /\ exitCode = Undefined
    /\ clock = 0
    /\ firstRun = Undefined

\* The edge pushed from a branch's tip to a new node, if the tip is truthy.
TipEdge(from, target, isMergeLine) ==
    IF Known(from) /\ Truthy(TipOf(from))
    THEN <<[source |-> TipOf(from)[2], target |-> target,
            color |-> ColorOf(from), isMergeLine |-> isMergeLine]>>
    ELSE <<>>

\* An id made from the position and the time of the execution.
SyntheticCommitId_Clock(i) == "c" \o ToString(i + clock)

\* `c${index}`
SyntheticCommitId(i) == "c" \o ToString(i)

\* `merge-${index}`
MergeId(i) == "merge-" \o ToString(i)

\* commitMatch[2] || `c${index}`
CommitId(m, i) == IF Truthy(m.id) THEN m.id[2] ELSE SyntheticCommitId(i)

\* A node placed without the step counter.
NodeX_NoStep(step) == SPACING_X

\* timeStep * SPACING_X (lines 61 and 105).
NodeX(step) == step * SPACING_X

\* Lines 54-79.
OnCommit(l) ==
    LET m == CommitMatch(l)
        id == CommitId(m, index)
        label == IF Truthy(m.tag) THEN m.tag[2] ELSE id
        commitNode == [id |-> id, label |-> label, x |-> NodeX(timeStep),
                       y |-> YOf(currentBranch), branch |-> currentBranch,
                       color |-> ColorOf(currentBranch), isMerge |-> FALSE]
    IN  /\ Directive(l) = "commit"
        /\ edges' = edges \o TipEdge(currentBranch, id, FALSE)
        /\ commits' = Append(commits, commitNode)
        /\ SetTip(currentBranch, id)
        /\ timeStep' = timeStep + 1
        /\ UNCHANGED <<currentBranch, branchCounter>>

\* The colour of the branch created when the counter is `counter` (line 87,
\* evaluated after the branchCounter++ of line 85).
NewBranchColor(counter) == ColorAt((counter + 1) % Len(COLORS))

\* A lane taken after the increment (++branchCounter).
NewBranchLane_PreIncrement(counter) == counter + 1

\* yIndex: branchCounter++ (line 85): the lane of the branch being created.
NewBranchLane(counter) == counter

\* A counter advanced by every `branch` directive, duplicate or not.
CounterAfterBranch_Always(counter, created) == counter + 1

\* The counter after a `branch` directive: advanced only when a record is made.
CounterAfterBranch(counter, created) == IF created THEN counter + 1 ELSE counter

\* A branch created with no tip, whatever the current branch holds.
ForkTip_Null == Null

\* lastCommitId: branches[currentBranch].lastCommitId (line 86).
ForkTip == TipOf(currentBranch)

\* Lines 80-91.
OnBranch(l) ==
    LET m == BranchMatch(l)
        newBranchName == m.name
    IN  /\ Directive(l) = "branch"
        /\ branches' =
             IF ~Known(newBranchName)
             THEN [n \in DOMAIN branches \cup {newBranchName} |->
                     IF n = newBranchName
                     THEN [name |-> newBranchName,
                           yIndex |-> NewBranchLane(branchCounter),
                           lastCommitId |-> ForkTip,
                           color |-> NewBranchColor(branchCounter)]
                     ELSE branches[n]]
             ELSE branches
        /\ branchCounter' = CounterAfterBranch(branchCounter, ~Known(newBranchName))
        /\ currentBranch' = newBranchName
        /\ UNCHANGED <<commits, edges, timeStep, protoTip, fnTips>>

\* Lines 92-97.
OnCheckout(l) ==
    LET m == CheckoutMatch(l)
        targetBranch == m.name
    IN  /\ Directive(l) = "checkout"
        /\ currentBranch' = IF Known(targetBranch) THEN targetBranch ELSE currentBranch
        /\ UNCHANGED <<branches, commits, edges, branchCounter, timeStep,
                       protoTip, fnTips>>

\* A merge that advanced the merged branch's tip instead.
MergeTarget_Source(sourceBranch) == sourceBranch

\* The branch whose tip a merge advances (line 132).
MergeTarget(sourceBranch) == currentBranch

\* Lines 98-134.
OnMerge(l) ==
    LET m == MergeMatch(l)
        sourceBranch == m.name
        mergeId == MergeId(index)
        commitNode == [id |-> mergeId, label |-> "Merge", x |-> NodeX(timeStep),
                       y |-> YOf(currentBranch), branch |-> currentBranch,
                       color |-> ColorOf(currentBranch), isMerge |-> TRUE]
    IN  /\ Directive(l) = "merge"
        /\ edges' = edges \o TipEdge(currentBranch, mergeId, FALSE)
                          \o TipEdge(sourceBranch, mergeId, TRUE)
        /\ commits' = Append(commits, commitNode)
        /\ SetTip(MergeTarget(sourceBranch), mergeId)
        /\ timeStep' = timeStep + 1
        /\ UNCHANGED <<currentBranch, branchCounter>>

\* A retained line that matches none of the four patterns.
OnIgnore(l) ==
    /\ Directive(l) = "none"
    /\ UNCHANGED <<branches, commits, edges, currentBranch, branchCounter,
                   timeStep, protoTip, fnTips>>

\* Lines of input text, before trimming and filtering.
RawLines ==
    {"commit",
     "  commit id: \"merge-1\" tag: \"v1\"",
     "branch dev",
     "branch feature-1",
     "\tcheckout dev",
     "checkout main\r",
     "merge dev",
     "merge main",
     "branch __proto__",
     "branch lastCommitId",
     "checkout constructor",
     "merge constructor",
     "reset",
     "%% a comment",
     "gitGraph",
     "   "}

\* One call of the forEach callback (lines 47-135) on the next retained line:
\* what every branch of the dispatch shares.
Handle(l) ==
    /\ index < MaxLines
    /\ Retained(l)
    /\ line' = l
    /\ index' = index + 1
    /\ UNCHANGED commandVars

Commit == \E raw \in RawLines : Handle(Trim(raw)) /\ OnCommit(Trim(raw))

Branch == \E raw \in RawLines : Handle(Trim(raw)) /\ OnBranch(Trim(raw))

Checkout == \E raw \in RawLines : Handle(Trim(raw)) /\ OnCheckout(Trim(raw))

Merge == \E raw \in RawLines : Handle(Trim(raw)) /\ OnMerge(Trim(raw))

Ignore == \E raw \in RawLines : Handle(Trim(raw)) /\ OnIgnore(Trim(raw))

Next == Commit \/ Branch \/ Checkout \/ Merge \/ Ignore

Spec == Init /\ [][Next]_vars

(***************************************************************************)
(* generateDrawioXml (lines 140-193).  The document is kept as the         *)
(* sequence of mxCell elements under <root>, each with its attributes;     *)
(* its serialisation to text is xmlbuilder2's.                             *)
(***************************************************************************)
NODE_SIZE == 50

COMMIT_STYLE ==
    "ellipse;whiteSpace=wrap;html=1;aspect=fixed;strokeWidth=2;fillColor=#FFFFFF;fontStyle=1;fontSize=10;"

BRANCH_LABEL_STYLE ==
    "text;html=1;strokeColor=none;fillColor=none;align=center;verticalAlign=middle;whiteSpace=wrap;rounded=0;fontStyle=1;fontSize=14;"

EDGE_STYLE ==
    "edgeStyle=orthogonalEdgeStyle;curved=1;rounded=0;orthogonalLoop=1;jettySize=auto;html=1;strokeWidth=2;exitX=1;exitY=0.5;exitDx=0;exitDy=0;entryX=0;entryY=0.5;entryDx=0;entryDy=0;"

\* `${v}` for a value that is a string or undefined.
Template(v) == IF v[1] = "string" THEN v[2] ELSE "undefined"

Digits == {"0", "1", "2", "3", "4", "5", "6", "7", "8", "9"}

\* A property name that is an array index ("0", "7", "12"; not "007").
IsArrayIndex(name) ==
    /\ name # ""
    /\ SpanIn(name, 1, Digits) = Len(name) + 1
    /\ (Len(name) = 1 \/ Ch(name, 1) # "0")

\* The number a string of digits writes.
RECURSIVE NumberOf(_)
NumberOf(name) ==
    IF name = "" THEN 0
    ELSE 10 * NumberOf(Sub(name, 1, Len(name) - 1))
           + (CHOOSE d \in 0..9 : ToString(d) = Ch(name, Len(name)))

\* a comes before b in Object.values(branches): array indices first, in
\* ascending order, then the other names in the order they were added.
ValuesBefore(a, b) ==
    IF IsArrayIndex(a) /\ IsArrayIndex(b) THEN NumberOf(a) < NumberOf(b)
    ELSE IF IsArrayIndex(a) # IsArrayIndex(b) THEN IsArrayIndex(a)
    ELSE branches[a].yIndex < branches[b].yIndex

RECURSIVE ValuesOrder(_)
ValuesOrder(names) ==
    IF names = {} THEN <<>>
    ELSE LET first == CHOOSE a \in names : \A b \in names \ {a} : ValuesBefore(a, b)
         IN  <<first>> \o ValuesOrder(names \ {first})

\* Lines 148-149.
BaseCells == <<[id |-> "0"], [id |-> "1", parent |-> "0"]>>

\* Lines 152-160.
LabelCell(b) ==
    [id |-> "label-" \o b.name,
     value |-> b.name,
     style |-> BRANCH_LABEL_STYLE \o ";fontColor=" \o b.color \o ";",
     parent |-> "1", vertex |-> "1",
     geometry |-> [x |-> -120, y |-> (b.yIndex * SPACING_Y) + (NODE_SIZE \div 2) - 10,
                   width |-> "100", height |-> "20"]]

LabelCells ==
    LET order == ValuesOrder(DOMAIN branches)
    IN  [i \in 1..Len(order) |-> LabelCell(branches[order[i]])]

\* edge.color || '#000000' (line 165).
StrokeColor(edge) == IF Truthy(edge.color) THEN edge.color[2] ELSE "#000000"

\* The style of an edge cell (line 170).
EdgeStyle(edge) == EDGE_STYLE \o "strokeColor=" \o StrokeColor(edge) \o ";"

\* Lines 163-176; idx is zero-based.
EdgeCell(edge, idx) ==
    [id |-> "edge-" \o ToString(idx),
     style |-> EdgeStyle(edge),
     parent |-> "1", source |-> edge.source, target |-> edge.target, edge |-> "1",
     geometry |-> [relative |-> "1"]]

EdgeCells == [i \in 1..Len(edges) |-> EdgeCell(edges[i], i - 1)]

\* Lines 179-190.
CommitCell(commit) ==
    [id |-> commit.id,
     value |-> commit.label,
     style |-> COMMIT_STYLE \o "strokeColor=" \o Template(commit.color) \o ";"
                 \o (IF commit.isMerge
                     THEN "fillColor=" \o Template(commit.color) \o ";fontColor=#FFFFFF;"
                     ELSE ""),
     parent |-> "1", vertex |-> "1",
     geometry |-> [x |-> commit.x, y |-> commit.y,
                   width |-> NODE_SIZE, height |-> NODE_SIZE]]

CommitCells == [i \in 1..Len(commits) |-> CommitCell(commits[i])]

\* generateDrawioXml({ commits, edges, branches }) at wall-clock time `now`.
GenerateDrawioXml(now) ==
    [modified |-> now,
     cells |-> BaseCells \o LabelCells \o EdgeCells \o CommitCells]

(***************************************************************************)
(* The execution block (lines 196-207): read the file, parse, emit, write, *)
(* report; any exception ends in the catch clause.                         *)
(***************************************************************************)

\* Bounds of the texts read.
MaxText == 3

\* The lines a text is made of.
TextLines ==
    {"commit",
     "commit id: \"1\"",
     "branch dev",
     "checkout main",
     "checkout constructor",
     "merge dev",
     "committed",
     "branch feat/x",
     "reset",
     "%% a comment"}

\* The example of the specification's section 8.
Scenario ==
    <<"commit id:\"A\"", "branch dev", "checkout dev", "commit id:\"B\"",
      "checkout main", "commit id:\"C\"", "merge dev">>

\* The texts the input file may hold.
Texts == UNION {[1..n -> TextLines] : n \in 0..MaxText} \cup {Scenario}

\* content.split('\n').map(l => l.trim()).filter(...) (line 37).
RetainedLines(text) ==
    SelectSeq([i \in 1..Len(text) |-> Trim(text[i])], Retained)

\* The `lines` array of the text that was read.
Lines == RetainedLines(inputContent[2])

CommandInit ==
    /\ ParserInit
    /\ pc = "read"
    /\ inputContent = Undefined
    /\ xmlOutput = Undefined
    /\ outputFile = Undefined
    /\ console = <<>>
    /\ exitCode = Undefined
    /\ clock = 0
    /\ firstRun = Undefined

\* fs.readFileSync(options.input, 'utf8') returns (line 197).
ReadFile ==
    /\ pc = "read"
    /\ \E text \in Texts : inputContent' = <<"text", text>>
    /\ pc' = "parse"
    /\ UNCHANGED <<parserVars, xmlOutput, outputFile, console, exitCode, clock,
                   firstRun>>

\* fs.readFileSync throws: the input file is missing or unreadable.
ReadFails ==
    /\ pc = "read"
    /\ pc' = "catch"
    /\ UNCHANGED <<parserVars, inputContent, xmlOutput, outputFile, console,
                   exitCode, clock, firstRun>>

\* One call of the forEach callback on the next line of `lines`.
HandleLine(l) ==
    /\ line' = l
    /\ index' = index + 1
    /\ UNCHANGED commandVars

ParseCommit ==
    /\ pc = "parse" /\ index < Len(Lines)
    /\ HandleLine(Lines[index + 1]) /\ OnCommit(Lines[index + 1])

ParseBranch ==
    /\ pc = "parse" /\ index < Len(Lines)
    /\ HandleLine(Lines[index + 1]) /\ OnBranch(Lines[index + 1])

ParseCheckout ==
    /\ pc = "parse" /\ index < Len(Lines)
    /\ HandleLine(Lines[index + 1]) /\ OnCheckout(Lines[index + 1])

ParseMerge ==
    /\ pc = "parse" /\ index < Len(Lines)
    /\ HandleLine(Lines[index + 1]) /\ OnMerge(Lines[index + 1])

ParseIgnore ==
    /\ pc = "parse" /\ index < Len(Lines)
    /\ HandleLine(Lines[index + 1]) /\ OnIgnore(Lines[index + 1])

\* parseMermaid returns and generateDrawioXml(graphData) runs (lines 198-199).
Generate ==
    /\ pc = "parse" /\ index = Len(Lines)
    /\ xmlOutput' = Str(GenerateDrawioXml(clock))
    /\ pc' = "write"
    /\ UNCHANGED <<parserVars, inputContent, outputFile, console, exitCode, clock,
                   firstRun>>

\* fs.writeFileSync(options.output, xmlOutput) returns (line 201).
WriteFile ==
    /\ pc = "write"
    /\ outputFile' = xmlOutput
    /\ pc' = "log"
    /\ UNCHANGED <<parserVars, inputContent, xmlOutput, console, exitCode, clock,
                   firstRun>>

\* fs.writeFileSync throws.
WriteFails ==
    /\ pc = "write"
    /\ pc' = "catch"
    /\ UNCHANGED <<parserVars, inputContent, xmlOutput, outputFile, console,
                   exitCode, clock, firstRun>>

\* A process that ends with status 0 whether or not an exception was caught.
ExitStatus_Zero(caught) == 0

\* The status the process ends with: process.exit(1) in the catch clause
\* (line 206), 0 when the try block runs to its end.
ExitStatus(caught) == IF caught THEN 1 ELSE 0

\* console.log of the success message (lines 202-203); the process then ends.
LogSuccess ==
    /\ pc = "log"
    /\ console' = Append(console, "Successfully converted")
    /\ exitCode' = Num(ExitStatus(FALSE))
    /\ pc' = "done"
    /\ UNCHANGED <<parserVars, inputContent, xmlOutput, outputFile, clock, firstRun>>

\* The catch clause (lines 204-207).
Catch ==
    /\ pc = "catch"
    /\ console' = Append(console, "Error:")
    /\ exitCode' = Num(ExitStatus(TRUE))
    /\ pc' = "done"
    /\ UNCHANGED <<parserVars, inputContent, xmlOutput, outputFile, clock, firstRun>>

\* The command is run once more on the same text, in a new process and at a
\* later time; the graph model of the first execution is kept for comparison.
RunAgain ==
    /\ pc = "done"
    /\ exitCode = Num(0)
    /\ firstRun = Undefined
    /\ firstRun' = <<"model", [branches |-> branches, commits |-> commits,
                               edges |-> edges]>>
    /\ branches' = InitialBranches
    /\ commits' = <<>>
    /\ edges' = <<>>
    /\ currentBranch' = "main"
    /\ branchCounter' = 1
    /\ timeStep' = 0
    /\ index' = 0
    /\ line' = ""
    /\ protoTip' = Undefined
    /\ fnTips' = [f \in ObjectPrototypeMethods |-> Undefined]
    /\ clock' = clock + 1
    /\ pc' = "parse"
    /\ xmlOutput' = Undefined
    /\ console' = <<>>
    /\ exitCode' = Undefined
    /\ UNCHANGED <<inputContent, outputFile>>

CommandNext ==
    \/ ReadFile \/ ReadFails
    \/ ParseCommit \/ ParseBranch \/ ParseCheckout \/ ParseMerge \/ ParseIgnore
    \/ Generate
    \/ WriteFile \/ WriteFails
    \/ LogSuccess \/ Catch
    \/ RunAgain

SpecCommand == CommandInit /\ [][CommandNext]_vars

(***************************************************************************)
(* What the properties below share.                                        *)
(***************************************************************************)

\* The step from the unprimed to the primed state is one call of the callback.
Called == index' = index + 1

\* The name a `branch`, `checkout` or `merge` line captures.
NameOf(l) ==
    CASE Directive(l) = "branch" -> BranchMatch(l).name
      [] Directive(l) = "checkout" -> CheckoutMatch(l).name
      [] Directive(l) = "merge" -> MergeMatch(l).name
      [] OTHER -> ""

HasRecord(name) == name \in DOMAIN branches

LastNode == commits[Len(commits)]

LastEdge == edges[Len(edges)]

\* The callback never dereferences an undefined branches[currentBranch]
\* (that would be the only TypeError parseMermaid can raise).
NoTypeError == Known(currentBranch)

(***************************************************************************)
(* C1  Merge asymmetry.                                                    *)
(***************************************************************************)

\* C1 as stated: for every known branch X, whatever branch is current,
\* `merge X` sets the current branch's tip to the merge node id and leaves
\* X's tip unchanged.
C1_MergeLeavesSourceTip ==
    [][(Called /\ Directive(line') = "merge" /\ HasRecord(NameOf(line')))
         => /\ TipOf(currentBranch)' = Str(MergeId(index))
            /\ branches'[NameOf(line')].lastCommitId
                 = branches[NameOf(line')].lastCommitId]_vars

\* C1 amended: for every known branch X other than the current branch,
\* `merge X` leaves X's tip unchanged and makes the merge node the tip of the
\* current branch's record; and a commit made while X is current appends an
\* edge whose source is the tip X had, so after the merge it still chains
\* from X's pre-merge tip and not from the merge node.
C1_MergeAsymmetryOtherBranch ==
    [][Called =>
         /\ (Directive(line') = "merge" /\ HasRecord(NameOf(line'))
               /\ NameOf(line') # currentBranch)
              => /\ branches'[NameOf(line')].lastCommitId
                      = branches[NameOf(line')].lastCommitId
                 /\ HasRecord(currentBranch)
                      => branches'[currentBranch].lastCommitId = Str(MergeId(index))
         /\ (Directive(line') = "commit" /\ HasRecord(currentBranch)
               /\ Truthy(branches[currentBranch].lastCommitId))
              => /\ Len(edges') = Len(edges) + 1
                 /\ edges'[Len(edges')].source = branches[currentBranch].lastCommitId[2]
                 /\ edges'[Len(edges')].target = commits'[Len(commits')].id]_vars

\* `commit`, `branch dev`, `merge main`, `checkout main`, `commit`: main was
\* merged into dev, and main's next commit chains from main's pre-merge tip.
C1_Witness ==
    /\ Directive(line) = "commit"
    /\ currentBranch = "main"
    /\ \E i \in 1..Len(commits) :
          /\ commits[i].isMerge
          /\ commits[i].branch = "dev"
          /\ \E e \in 1..Len(edges) :
                /\ edges[e].isMergeLine
                /\ edges[e].target = commits[i].id
                /\ edges[e].color = ColorOf("main")
                /\ LastEdge.source = edges[e].source
                /\ LastEdge.target = LastNode.id
                /\ LastNode.branch = "main"

(***************************************************************************)
(* C2  Fork inheritance.                                                   *)
(***************************************************************************)

\* C2 as stated: `branch <name>` for a name that has no record yet makes a
\* record whose tip is the current branch's tip at that moment (null when
\* the current branch has no commit), a later commit on another branch does
\* not change it, and a commit on a branch with a tip appends an edge from
\* that tip to the new node.
C2_ForkInheritance ==
    [][Called =>
         /\ (Directive(line') = "branch" /\ ~HasRecord(NameOf(line')))
              => /\ NameOf(line') \in DOMAIN branches'
                 /\ branches'[NameOf(line')].lastCommitId
                      = IF Truthy(TipOf(currentBranch)) THEN TipOf(currentBranch) ELSE Null
         /\ Directive(line') = "commit"
              => /\ \A n \in DOMAIN branches \ {currentBranch} :
                        branches'[n].lastCommitId = branches[n].lastCommitId
                 /\ Truthy(TipOf(currentBranch))
                      => /\ Len(edges') = Len(edges) + 1
                         /\ edges'[Len(edges')].source = TipOf(currentBranch)[2]
                         /\ edges'[Len(edges')].target = commits'[Len(commits')].id]_vars

(***************************************************************************)
(* C3  Node id uniqueness.                                                 *)
(***************************************************************************)

\* C3 as stated: the ids of all nodes in the commit sequence are pairwise
\* distinct.
C3_NodeIdsDistinct ==
    \A i, j \in 1..Len(commits) : i # j => commits[i].id # commits[j].id

(***************************************************************************)
(* C4  Merge ids against commit ids.                                       *)
(***************************************************************************)

\* C4 as stated: the id of a merge node never equals the id of a plain
\* commit node of the same model.
C4_MergeIdNeverCommitId ==
    \A i, j \in 1..Len(commits) :
        (commits[i].isMerge /\ ~commits[j].isMerge) => commits[i].id # commits[j].id

(***************************************************************************)
(* C5  Checkout.                                                           *)
(***************************************************************************)

\* C5 as stated: `checkout <name>` for a name that is not main and that no
\* `branch` directive created changes nothing and raises no error; for a
\* known name it sets currentBranch to that name and changes nothing else.
C5_CheckoutUnknownIsNoOp ==
    [][(Called /\ Directive(line') = "checkout")
         => /\ UNCHANGED <<branches, commits, edges, branchCounter, timeStep>>
            /\ Known(currentBranch')
            /\ currentBranch' = IF HasRecord(NameOf(line'))
                                THEN NameOf(line') ELSE currentBranch]_vars

(***************************************************************************)
(* C6  Merge of an unknown or tip-less source.                             *)
(***************************************************************************)

\* C6 as stated: `merge S` where S has no record, or S's tip is null, appends
\* exactly one merge node on the current branch, appends only the
\* target-side edge when the current branch has a tip and no edge when it
\* has none, advances the current branch's tip and the step counter, and
\* raises no error.
C6_MergeUnknownSource ==
    [][(Called /\ Directive(line') = "merge"
          /\ (~HasRecord(NameOf(line')) \/ branches[NameOf(line')].lastCommitId = Null))
         => /\ commits' = Append(commits, commits'[Len(commits')])
            /\ commits'[Len(commits')].isMerge
            /\ commits'[Len(commits')].branch = currentBranch
            /\ edges' = IF Truthy(TipOf(currentBranch))
                        THEN Append(edges, [source |-> TipOf(currentBranch)[2],
                                            target |-> MergeId(index),
                                            color |-> ColorOf(currentBranch),
                                            isMergeLine |-> FALSE])
                        ELSE edges
            /\ TipOf(currentBranch)' = Str(MergeId(index))
            /\ timeStep' = timeStep + 1
            /\ Known(currentBranch')]_vars

(***************************************************************************)
(* C7  Lane stability.                                                     *)
(***************************************************************************)

\* C7: main has lane 0 in every state, no two branches share a lane, the
\* k-th branch a `branch` directive creates receives lane k, and a branch's
\* lane never changes after creation.
C7_LaneStability ==
    /\ [](/\ branches["main"].yIndex = 0
          /\ \A a, b \in DOMAIN branches :
                a # b => branches[a].yIndex # branches[b].yIndex)
    /\ [][/\ \A n \in DOMAIN branches :
                /\ n \in DOMAIN branches'
                /\ branches'[n].yIndex = branches[n].yIndex
          /\ \A n \in DOMAIN branches' \ DOMAIN branches :
                branches'[n].yIndex = Cardinality(DOMAIN branches)]_vars

\* `branch dev`, `branch feature-1`, `branch lastCommitId`: three branches
\* created, on lanes 1, 2 and 3.
C7_Witness ==
    /\ DOMAIN branches = {"main", "dev", "feature-1", "lastCommitId"}
    /\ {branches[n].yIndex : n \in DOMAIN branches} = 0..3

(***************************************************************************)
(* C8  Branch colour.                                                      *)
(***************************************************************************)

\* C8 as stated: the branch with lane index k has colour palette[k mod 5].
C8_ColorByCreationOrder ==
    \A n \in DOMAIN branches :
        branches[n].color = ColorAt(branches[n].yIndex % Len(COLORS))

(***************************************************************************)
(* C9  Duplicate branch declaration.                                       *)
(***************************************************************************)

\* C9: `branch <name>` for a name that already has a record changes no
\* branch record, nor the lane/colour counter, the node and edge sequences or
\* the step counter; it sets currentBranch to <name> and raises no error.
C9_DuplicateBranchFrame ==
    [][(Called /\ Directive(line') = "branch" /\ HasRecord(NameOf(line')))
         => /\ UNCHANGED <<branches, branchCounter, commits, edges, timeStep>>
            /\ currentBranch' = NameOf(line')
            /\ Known(currentBranch')]_vars

\* `branch dev` processed when dev already holds a node: a duplicate
\* declaration, made while another branch was current.
C9_Witness ==
    /\ line = "branch dev"
    /\ currentBranch = "dev"
    /\ HasRecord("dev")
    /\ \E i \in 1..Len(commits) : commits[i].branch = "dev"
    /\ LastNode.branch # "dev"

(***************************************************************************)
(* C10  Monotonic horizontal layout.                                       *)
(***************************************************************************)

\* C10: the step counter starts at 0, each commit and each merge directive
\* adds exactly one to it and no other directive changes it; the i-th node
\* created (0-based) has x = i * SPACING_X, so x strictly increases along
\* the commit sequence.
C10_MonotonicLayout ==
    /\ timeStep = 0
    /\ [](/\ \A i \in 1..Len(commits) : commits[i].x = (i - 1) * SPACING_X
          /\ \A i \in 1..(Len(commits) - 1) : commits[i].x < commits[i + 1].x)
    /\ [][Called =>
            timeStep' = IF Directive(line') \in {"commit", "merge"}
                        THEN timeStep + 1 ELSE timeStep]_vars

\* Three nodes at x = 0, 150, 300: a commit, a merge and a commit, on two
\* branches.
C10_Witness ==
    /\ Len(commits) = 3
    /\ timeStep = 3
    /\ commits[2].isMerge
    /\ ~commits[3].isMerge
    /\ commits[1].branch # commits[3].branch


(***************************************************************************)
(* What the properties of the whole command share.                         *)
(***************************************************************************)

\* parseMermaid has handled every retained line of the text that was read.
Parsed == inputContent # Undefined /\ index = Len(Lines)

\* The edges of the graph model, as a set.
EdgeSet == {edges[i] : i \in 1..Len(edges)}

\* The node ids of the graph model, in order.
NodeIds == [i \in 1..Len(commits) |-> commits[i].id]

(***************************************************************************)
(* C11  The example scenario.                                              *)
(***************************************************************************)

\* C11: once the seven directives commit id "A", branch dev, checkout dev,
\* commit id "B", checkout main, commit id "C", merge dev are parsed, the
\* model has exactly the four nodes A, B, C and one merge node, the merge
\* node on main's lane, and exactly the four edges A->B, A->C, C->merge and
\* B->merge; B->merge alone is a merge line and has dev's colour, A->C and
\* C->merge have main's colour.
C11_ExampleScenario ==
    (Parsed /\ inputContent[2] = Scenario) =>
        LET merge == commits[4]
            Edge(a, b) == {e \in EdgeSet : e.source = a /\ e.target = b}
        IN  /\ Len(commits) = 4
            /\ SubSeq(NodeIds, 1, 3) = <<"A", "B", "C">>
            /\ merge.isMerge /\ merge.id \notin {"A", "B", "C"}
            /\ \A i \in 1..3 : ~commits[i].isMerge
            /\ merge.branch = "main"
            /\ merge.y = Num(branches["main"].yIndex * SPACING_Y)
            /\ Len(edges) = 4
            /\ {<<e.source, e.target>> : e \in EdgeSet}
                 = {<<"A", "C">>, <<"A", "B">>, <<"C", merge.id>>, <<"B", merge.id>>}
            /\ \A e \in EdgeSet :
                 e.isMergeLine <=> (e.source = "B" /\ e.target = merge.id)
            /\ \A e \in Edge("B", merge.id) : e.color = Str(branches["dev"].color)
            /\ \A e \in Edge("A", "C") \cup Edge("C", merge.id) :
                 e.color = Str(branches["main"].color)
            /\ branches["dev"].color # branches["main"].color

\* The scenario has been parsed to its end.
C11_Witness ==
    Parsed /\ inputContent[2] = Scenario /\ Len(commits) = 4 /\ Len(edges) = 4

\* The text sub occurs in the text s.
Contains(s, sub) ==
    \E i \in 1..(Len(s) - Len(sub) + 1) : Sub(s, i, i + Len(sub) - 1) = sub

\* The cells of the document that was generated.
Cells == xmlOutput[2].cells

\* The cell emitted for the i-th edge of the model: the base cells and the
\* label cells come first.
EdgeCellAt(i) == Cells[Len(BaseCells) + Cardinality(DOMAIN branches) + i]

\* The cell emitted for the i-th node of the model.
CommitCellAt(i) ==
    Cells[Len(BaseCells) + Cardinality(DOMAIN branches) + Len(edges) + i]

\* A document has been generated from the model the parser holds.
Generated == xmlOutput # Undefined

\* draw.io draws a connection dashed when its style sets dashed=1.
Dashed(cell) == Contains(cell.style, "dashed=1;")

(***************************************************************************)
(* C12  Line style of merge-source edges.                                  *)
(***************************************************************************)

\* C12: in the generated document, the cell of an edge is dashed exactly
\* when the model edge is a merge line (isMergeLine); every other edge is
\* solid.
C12_MergeLinesDashed ==
    Generated =>
        \A i \in 1..Len(edges) : Dashed(EdgeCellAt(i)) <=> edges[i].isMergeLine

(***************************************************************************)
(* C13  Emitter fidelity.                                                  *)
(***************************************************************************)

\* The value the style gives to key: the text between the last `key=` and
\* the `;` that follows it (a later setting overrides an earlier one).
RECURSIVE StyleValueFrom(_, _, _)
StyleValueFrom(style, key, i) ==
    IF i < 1 THEN ""
    ELSE IF /\ Sub(style, i, i + Len(key)) = key \o "="
            /\ (i = 1 \/ Ch(style, i - 1) = ";")
         THEN LET from == i + Len(key) + 1
                  to == CHOOSE j \in from..(Len(style) + 1) :
                          /\ (j = Len(style) + 1 \/ Ch(style, j) = ";")
                          /\ \A k \in from..(j - 1) : Ch(style, k) # ";"
              IN  Sub(style, from, to - 1)
         ELSE StyleValueFrom(style, key, i - 1)

StyleValue(style, key) == StyleValueFrom(style, key, Len(style))

\* A colour of the model as text; a node or edge made while the current
\* branch has no record has the colour undefined.
ColourText(color) == IF color = Undefined THEN "undefined" ELSE color[2]

\* C13: the generated document has, after the base and label cells, exactly
\* one edge cell per model edge, in model order, with the edge's source,
\* target and colour, then exactly one vertex cell per model node, in model
\* order, with the node's id, label, x, y and colour, and nothing else.
C13_EmitterFidelity ==
    Generated =>
        /\ Len(Cells) = Len(BaseCells) + Cardinality(DOMAIN branches)
                          + Len(edges) + Len(commits)
        /\ \A i \in 1..Len(edges) :
             LET cell == EdgeCellAt(i)
             IN  /\ "edge" \in DOMAIN cell /\ cell.edge = "1"
                 /\ cell.source = edges[i].source
                 /\ cell.target = edges[i].target
                 /\ StyleValue(cell.style, "strokeColor") = ColourText(edges[i].color)
        /\ \A i \in 1..Len(commits) :
             LET cell == CommitCellAt(i)
             IN  /\ "vertex" \in DOMAIN cell /\ "edge" \notin DOMAIN cell
                 /\ cell.id = commits[i].id
                 /\ cell.value = commits[i].label
                 /\ cell.geometry.x = commits[i].x
                 /\ cell.geometry.y = commits[i].y
                 /\ StyleValue(cell.style, "strokeColor") = ColourText(commits[i].color)
        /\ \A i \in 1..(Len(Cells) - Len(edges) - Len(commits)) :
             /\ "edge" \notin DOMAIN Cells[i]
             /\ "vertex" \in DOMAIN Cells[i] => Sub(Cells[i].id, 1, 6) = "label-"

(***************************************************************************)
(* C14  No partial success.                                                *)
(***************************************************************************)

\* The success message is on the console.
SuccessReported == \E i \in 1..Len(console) : console[i] = "Successfully converted"

\* The error message is on the console.
ErrorReported == \E i \in 1..Len(console) : console[i] = "Error:"

\* C14: when reading the input fails, the parser and the emitter are never
\* called and nothing is written: the model stays empty, no document exists,
\* the command reports the error and ends with a non-zero status; and the
\* success message is printed only once the output has been written.
C14_NoPartialSuccess ==
    /\ inputContent = Undefined =>
         /\ index = 0 /\ commits = <<>> /\ edges = <<>>
         /\ branches = InitialBranches
         /\ xmlOutput = Undefined
         /\ outputFile = Undefined
         /\ ~SuccessReported
         /\ pc \in {"read", "catch", "done"}
         /\ pc = "done" => (ErrorReported /\ exitCode # Undefined /\ exitCode # Num(0))
    /\ SuccessReported => (outputFile # Undefined /\ outputFile = xmlOutput)

\* The read failed and the command has ended.
C14_Witness == inputContent = Undefined /\ pc = "done" /\ ErrorReported

(***************************************************************************)
(* C15  Determinism.                                                       *)
(***************************************************************************)

\* s is an initial part of t.
IsPrefix(s, t) == Len(s) <= Len(t) /\ s = SubSeq(t, 1, Len(s))

\* The graph model parseMermaid returns (line 137).
GraphModel == [branches |-> branches, commits |-> commits, edges |-> edges]

\* The second execution builds, line by line, the nodes and edges the first
\* one built, and ends with the same graph model.
C15_SameModel ==
    firstRun # Undefined =>
        /\ IsPrefix(commits, firstRun[2].commits)
        /\ IsPrefix(edges, firstRun[2].edges)
        /\ Parsed => GraphModel = firstRun[2]

\* The id of a node made by the line at position `index` of the retained
\* lines is the id the line gives, or c<index>, or merge-<index>.
C15_IdsByPosition ==
    (pc = "parse" /\ Len(commits') = Len(commits) + 1) =>
        LET node == commits'[Len(commits')]
            given == CommitMatch(line').id
        IN  /\ line' = Lines[index + 1]
            /\ IF node.isMerge THEN node.id = "merge-" \o ToString(index)
               ELSE IF Truthy(given) THEN node.id = given[2]
               ELSE node.id = "c" \o ToString(index)

\* C15: two executions on the same input text, at different times, produce
\* the same branches, the same node sequence and the same edge sequence, step
\* by step; an id the parser makes up depends only on the position of its
\* line among the retained lines.
C15_Determinism == []C15_SameModel /\ [][C15_IdsByPosition]_vars

\* A second execution, later than the first, has parsed a text that has a
\* filtered line and a commit without id.
C15_Witness ==
    /\ firstRun # Undefined /\ Parsed /\ clock > 0
    /\ Len(Lines) < Len(inputContent[2])
    /\ \E i \in 1..Len(commits) : ~commits[i].isMerge /\ Ch(commits[i].id, 1) = "c"
    /\ Len(edges) > 0

(***************************************************************************)
(* C16  Unrecognized lines are ignored.                                    *)
(***************************************************************************)

\* The whole line is `commit`, optionally followed by id: "..." and
\* tag: "...".
IsCommitForm(l) ==
    LET g1 == MatchAttr(l, 7, "id:")
        g3 == MatchAttr(l, g1.next, "tag:")
    IN  StartsWith(l, "commit") /\ g3.next = Len(l) + 1

\* The whole line is the keyword, white space and a name of [\w-]+.
IsNameForm(l, keyword) ==
    LET i == Len(keyword) + 1
        j == SpanIn(l, i, WhiteSpace)
        k == SpanIn(l, j, WordChars \cup {"-"})
    IN  StartsWith(l, keyword) /\ j > i /\ k > j /\ k = Len(l) + 1

\* The line is one of the four directive forms.
IsDirectiveForm(l) ==
    \/ IsCommitForm(l)
    \/ IsNameForm(l, "branch")
    \/ IsNameForm(l, "checkout")
    \/ IsNameForm(l, "merge")

\* C16: handling a retained line that is not one of the four directive
\* forms (such as a keyword followed by other characters, or a branch name
\* with a character outside [\w-]) leaves currentBranch, branches, the nodes,
\* the edges and the step counter unchanged; and a line has the effect of at
\* most one directive: it appends at most one node, and a line that appends
\* a node neither creates a branch nor changes currentBranch.
C16_UnrecognizedIgnored ==
    [][(pc = "parse" /\ Called) =>
          /\ ~IsDirectiveForm(line') =>
                UNCHANGED <<currentBranch, branches, commits, edges, timeStep>>
          /\ Len(commits') <= Len(commits) + 1
          /\ Len(commits') > Len(commits) =>
                (DOMAIN branches' = DOMAIN branches /\ currentBranch' = currentBranch)
      ]_vars

(***************************************************************************)
(* C17  The commit step and its frame.                                     *)
(***************************************************************************)

\* C17: a commit directive handled while a branch T (a record of branches)
\* is current appends exactly one node, on branch T, at y = T.yIndex *
\* SPACING_Y, of T's colour, labelled with the tag when there is one and with
\* the id otherwise; it appends exactly one edge from T's tip to the new id,
\* of T's colour and not a merge line, when T has a tip, and no edge when it
\* has none; T's tip becomes the new id.  Other branches, T's lane and
\* colour, the lane counter, currentBranch and the nodes and edges appended
\* before stay as they were.
C17_CommitStep ==
    [][(Called /\ IsCommitForm(line') /\ HasRecord(currentBranch)) =>
          LET T == branches[currentBranch]
              node == commits'[Len(commits')]
              tag == CommitMatch(line').tag
          IN  /\ commits' = Append(commits, node)
              /\ node.branch = T.name
              /\ node.y = Num(T.yIndex * SPACING_Y)
              /\ node.color = Str(T.color)
              /\ ~node.isMerge
              /\ node.label = IF Truthy(tag) THEN tag[2] ELSE node.id
              /\ IF Truthy(T.lastCommitId)
                 THEN edges' = Append(edges, [source |-> T.lastCommitId[2],
                                              target |-> node.id,
                                              color |-> Str(T.color),
                                              isMergeLine |-> FALSE])
                 ELSE edges' = edges
              /\ branches' = [branches EXCEPT ![currentBranch].lastCommitId = Str(node.id)]
              /\ branchCounter' = branchCounter
              /\ currentBranch' = currentBranch
      ]_vars

\* A tagged commit was just made on a branch other than main that had a tip.
C17_Witness ==
    /\ IsCommitForm(line) /\ Truthy(CommitMatch(line).tag)
    /\ Len(commits) > 1 /\ Len(edges) > 0
    /\ LastNode.label = CommitMatch(line).tag[2] /\ LastNode.label # LastNode.id
    /\ LastNode.branch = currentBranch /\ currentBranch # "main"
    /\ HasRecord(currentBranch)
    /\ LastEdge.target = LastNode.id
    /\ branches[currentBranch].lastCommitId = Str(LastNode.id)

(***************************************************************************)
(* C18  No dangling or backward edges.                                     *)
(***************************************************************************)

\* The positions of the edges that end at the node id.
EdgesInto(id) == {k \in 1..Len(edges) : edges[k].target = id}

\* Every tip and every edge source is the id of an existing node; an edge
\* runs from a node made earlier, at a smaller x, to a node made later; a
\* plain commit is the target of at most one edge, a merge node of at most
\* two, the edge from the current branch's tip before the merge line.
C18_EdgesWellFormed ==
    /\ \A b \in DOMAIN branches :
         Truthy(branches[b].lastCommitId) =>
            \E i \in 1..Len(commits) : commits[i].id = branches[b].lastCommitId[2]
    /\ \A k \in 1..Len(edges) :
         \E i, j \in 1..Len(commits) :
            /\ i < j
            /\ commits[i].id = edges[k].source
            /\ commits[j].id = edges[k].target
            /\ commits[i].x < commits[j].x
    /\ \A i \in 1..Len(commits) :
         /\ Cardinality(EdgesInto(commits[i].id)) <= (IF commits[i].isMerge THEN 2 ELSE 1)
         /\ \A k1, k2 \in EdgesInto(commits[i].id) :
              k1 < k2 => (~edges[k1].isMergeLine /\ edges[k2].isMergeLine)

\* The edges a directive appends end at the node the same directive appends.
C18_EdgeTargetsNewNode ==
    Called =>
        /\ IsPrefix(edges, edges')
        /\ Len(edges') > Len(edges) =>
             /\ Len(commits') = Len(commits) + 1
             /\ \A k \in (Len(edges) + 1)..Len(edges') :
                  edges'[k].target = commits'[Len(commits')].id

\* C18: in every reachable state every branch tip and every edge source is
\* the id of a node of the commit sequence, every edge target is the id of
\* the node appended by the directive that appended the edge, the source
\* node was created strictly before the target node, a plain commit node is
\* the target of at most one edge and a merge node of at most two, the
\* target-side edge before the merge-line edge.
C18_NoDanglingEdges == []C18_EdgesWellFormed /\ [][C18_EdgeTargetsNewNode]_vars

(***************************************************************************)
(* C19  currentBranch names a branch record.                               *)
(***************************************************************************)

\* The colours of the palette.
Palette == {COLORS[i] : i \in 1..Len(COLORS)}

\* C19: after any sequence of directives currentBranch is main or a name
\* for which a branch directive created a record (lane, tip, colour), and
\* every node has the integer y of its branch's lane, lane * SPACING_Y, and
\* a colour of the palette.
C19_CurrentBranchHasRecord ==
    /\ HasRecord(currentBranch)
    /\ \A i \in 1..Len(commits) :
         /\ HasRecord(commits[i].branch)
         /\ commits[i].y = Num(branches[commits[i].branch].yIndex * SPACING_Y)
         /\ \E c \in Palette : commits[i].color = Str(c)

(***************************************************************************)
(* C20  Emitted cell ids are unique.                                       *)
(***************************************************************************)

\* The positions of the vertex cells with the id.
VertexCells(id) ==
    {i \in 1..Len(Cells) : "vertex" \in DOMAIN Cells[i] /\ Cells[i].id = id}

\* C20: the cells of the generated document (the base cells 0 and 1, the
\* label cells, the edge cells and the vertex cells of the nodes) have
\* pairwise distinct ids, and the source and the target of every edge cell
\* are each the id of exactly one vertex cell.
C20_CellIdsDistinct ==
    Generated =>
        /\ \A i, j \in 1..Len(Cells) : i # j => Cells[i].id # Cells[j].id
        /\ \A i \in 1..Len(edges) :
             /\ Cardinality(VertexCells(EdgeCellAt(i).source)) = 1
             /\ Cardinality(VertexCells(EdgeCellAt(i).target)) = 1

====
